---- MODULE Spec2Model ----
(***************************************************************************)
(* Chunk streaming and visibility of hematite: the chunk index            *)
(* (ChunkManager.chunk_columns), the pending mesh requests of App and of   *)
(* ChunkManager, load_chunks, the per-tick nearest pop of the Update       *)
(* handler, ChunkManager::get_pending and the culling pass of App::render. *)
(*                                                                         *)
(* Positions (f32 in the source) are fixed-point integers, Scale units per *)
(* block.  Rust indices are 0-based; TLA+ sequences are 1-based, so a      *)
(* queue index i of the model is the index i-1 of the Vec, and chunks[y+1] *)
(* is the slice y of a column.  Option<T> is a sequence of length at most  *)
(* one: None is << >> and Some(v) is <<v>>.                                *)
(***************************************************************************)
EXTENDS Integers, Sequences, FiniteSets, TLC

VARIABLES
    chunk_columns,      \* ChunkManager.chunk_columns: (x, z) -> ChunkColumn
    pending_chunks,     \* App.pending_chunks
    cm_pending_chunks,  \* ChunkManager.pending_chunks
    region,             \* the open region file: local (cx, cz) -> column
    player,             \* Player.pos, read from level.dat, never written
    camera,             \* FirstPerson.position
    hash_order,         \* the order in which the HashMap yields its keys
    next_gen,           \* allocation stamp of the next column stored
    create_buffer_calls,\* calls of Renderer::create_buffer so far
    ticks,              \* Update events handled
    loads,              \* load_chunks calls, of App and of ChunkManager
    adds,               \* add_chunk_column calls of the owner of the manager
    event,              \* the event or call handled last
    pending,            \* its `pending`, when it is an Update
    got,                \* its return value, when it is a get_pending
    walked,             \* the requests it pushed, when it is a load_chunks
    requested,          \* the local coordinates it asked the region for
    frame               \* its render calls and counters, when it is a Render

vars == << chunk_columns, pending_chunks, cm_pending_chunks, region, player,
           camera, hash_order, next_gen, create_buffer_calls, ticks, loads,
           adds, event, pending, got, walked, requested, frame >>

----------------------------------------------------------------------------
(* Bounds of the model *)

MaxLoads == 2
MaxAdds == 1
MaxTicks == 2

(* Program constants *)

SIZE == 16
REGION_SHIFT == 5
REGION_MASK == 31
BASE_BACK == 8
WINDOW == 16
REGION_WIDTH == 32
CHUNK_WORLD == 16
I32_MAX == 2147483647
EMPTY_LIGHT == 240

Scale == 10 * 10

None == << >>
Some(v) == << v >>

----------------------------------------------------------------------------
(* Chunks and columns *)

EMPTY_BLOCK == [value |-> 0]

\* A chunk is given by the block state and the light level that fill it.
Chunk(b, l) == [blocks |-> [value |-> b], light_levels |-> [value |-> l]]

EMPTY_CHUNK == [blocks |-> EMPTY_BLOCK, light_levels |-> [value |-> EMPTY_LIGHT]]

\* one slot short
NoBuffers_Short == [i \in 0 .. SIZE - 2 |-> None]

\* buffers: [RefCell<Option<..>>; SIZE], every slot None
NoBuffers == [i \in 0 .. SIZE - 1 |-> None]

\* ChunkColumn; gen is the identity of the stored object, to which the
\* references held by pending requests point.
ChunkColumn(chunks, biomes, gen) ==
    [chunks |-> chunks, buffers |-> NoBuffers, biomes |-> biomes, gen |-> gen]

HasColumn(cols, x, z) == << x, z >> \in DOMAIN cols

\* HashMap::get
GetColumn(cols, x, z) ==
    IF HasColumn(cols, x, z) THEN Some(cols[<< x, z >>]) ELSE None

\* an insert into a map cleared first
add_chunk_column_Only(cols, x, z, c) == << x, z >> :> c

\* HashMap::entry(key).or_insert(c): a column already stored stays
add_chunk_column_Keep(cols, x, z, c) ==
    [k \in DOMAIN cols \cup {<< x, z >>} |->
        IF k \in DOMAIN cols THEN cols[k] ELSE c]

\* ChunkManager::add_chunk_column: HashMap::insert, replacing on an equal key
add_chunk_column(cols, x, z, c) ==
    [k \in DOMAIN cols \cup {<< x, z >>} |->
        IF k = << x, z >> THEN c ELSE cols[k]]

----------------------------------------------------------------------------
(* Numbers *)

Max(a, b) == IF a >= b THEN a ELSE b

\* The element of a singleton.  Only({ F(v) : v \in {e} }) is F(e) with e
\* evaluated once, the way a loop carries its accumulator.
Only(S) == CHOOSE x \in S : TRUE

\* (x / 16.0).floor() as i32
ChunkOf(v) == v \div (CHUNK_WORLD * Scale)

\* x as i32: truncation toward zero
Trunc(v) == IF v >= 0 THEN v \div Scale ELSE -((-v) \div Scale)

\* x / 32 on i32: the quotient rounded toward zero
Shr5_Trunc(x) ==
    IF x >= 0 THEN x \div (2 ^ REGION_SHIFT) ELSE -((-x) \div (2 ^ REGION_SHIFT))

\* x >> 5 on i32 (arithmetic shift)
Shr5(x) == x \div (2 ^ REGION_SHIFT)

\* x & 0x1f on i32 (two's complement)
And31(x) == x % (REGION_MASK + 1)

----------------------------------------------------------------------------
(* The nearest pop: the fold of app.rs:207-219 and chunk.rs:132-145 *)

\* dist of the fold's closure.  The arithmetic is that of i32, which is
\* also the integer width of TLC: it stops with an error on
\* a product or sum that leaves the i32 range, so every distance of a
\* checked run is one that i32 holds exactly.
Dist(cc, pp) ==
    LET sq(i) == (cc[i] - pp[i]) * (cc[i] - pp[i])
    IN  sq(1) + sq(2) + sq(3)

\* the fold with <= for <: the last of equally near requests wins
RECURSIVE FoldClosest_LastWins(_, _, _, _, _)
FoldClosest_LastWins(q, pp, i, best_i, best_dist) ==
    IF i > Len(q) THEN best_i
    ELSE LET dist == Dist(q[i].coords, pp)
         IN  IF dist <= best_dist
             THEN FoldClosest_LastWins(q, pp, i + 1, Some(i), dist)
             ELSE FoldClosest_LastWins(q, pp, i + 1, best_i, best_dist)

RECURSIVE FoldClosest(_, _, _, _, _)
FoldClosest(q, pp, i, best_i, best_dist) ==
    IF i > Len(q) THEN best_i
    ELSE LET dist == Dist(q[i].coords, pp)
         IN  IF dist < best_dist
             THEN FoldClosest(q, pp, i + 1, Some(i), dist)
             ELSE FoldClosest(q, pp, i + 1, best_i, best_dist)

Closest(q, pp) == FoldClosest(q, pp, 1, None, I32_MAX)

\* Vec::pop in the place of swap_remove: the last element goes, not the i-th
SwapRemove_Pop(q, i) == [j \in 1 .. Len(q) - 1 |-> q[j]]

\* Vec::swap_remove(i): the last element takes the place of the removed one
SwapRemove(q, i) ==
    [j \in 1 .. Len(q) - 1 |-> IF j = i THEN q[Len(q)] ELSE q[j]]

\* closest.and_then(|i| match len { 0 => None, _ => Some(swap_remove(i)) })
PopResult(q, closest) ==
    IF closest = None THEN None
    ELSE IF Len(q) = 0 THEN None ELSE Some(q[closest[1]])

\* a pop that leaves the request in the queue
PopRest_Peek(q, closest) == q

\* the queue after the pop
PopRest(q, closest) ==
    IF closest = None \/ Len(q) = 0 THEN q ELSE SwapRemove(q, closest[1])

\* pp of the Update handler: camera.position.map(|x| (x / 16.0).floor() as i32)
UpdatePP(pos) == << ChunkOf(pos[1]), ChunkOf(pos[2]), ChunkOf(pos[3]) >>

\* pp of get_pending: player.pos.map(|i| i as i32)
GetPendingPP(pos) == << Trunc(pos[1]), Trunc(pos[2]), Trunc(pos[3]) >>

----------------------------------------------------------------------------
(* each_chunk_and_neighbors, chunk.rs:158-186 *)

EmptyRef == << "EMPTY_CHUNK" >>

\* &c.chunks[y] of the column stored at (x, z)
ChunkRef(x, z, y, c) == << "chunk", x, z, y, c.gen >>

\* &c.biomes of the column stored at (x, z)
BiomeRef(x, z, c) == << "biomes", x, z, c.gen >>

\* &central.buffers[y]
BufferRef(x, z, y, c) == [key |-> << x, z >>, y |-> y, gen |-> c.gen]

\* the two offsets taken for one another
Columns_Transposed(cols, x, z) ==
    << << GetColumn(cols, x - 1, z - 1), GetColumn(cols, x - 1, z),
          GetColumn(cols, x - 1, z + 1) >>,
       << GetColumn(cols, x, z - 1), GetColumn(cols, x, z),
          GetColumn(cols, x, z + 1) >>,
       << GetColumn(cols, x + 1, z - 1), GetColumn(cols, x + 1, z),
          GetColumn(cols, x + 1, z + 1) >> >>

\* columns: [-1, 0, 1].map(|dz| [-1, 0, 1].map(|dx| get(&(x + dx, z + dz)))),
\* columns[dz + 2][dx + 2] in the indices of the model
Columns(cols, x, z) ==
    << << GetColumn(cols, x - 1, z - 1), GetColumn(cols, x, z - 1),
          GetColumn(cols, x + 1, z - 1) >>,
       << GetColumn(cols, x - 1, z), GetColumn(cols, x, z),
          GetColumn(cols, x + 1, z) >>,
       << GetColumn(cols, x - 1, z + 1), GetColumn(cols, x, z + 1),
          GetColumn(cols, x + 1, z + 1) >> >>

\* cx.and_then(|c| c.chunks[..].get(y as usize)).unwrap_or(EMPTY_CHUNK);
\* y as usize of a negative y is out of every range
ChunkAt(columns, x, z, y, ix, iz) ==
    LET cx == columns[iz][ix]
    IN  IF cx = None THEN EmptyRef
        ELSE IF y >= 0 /\ y < Len(cx[1].chunks)
             THEN ChunkRef(x + (ix - 2), z + (iz - 2), y, cx[1])
             ELSE EmptyRef

\* cz.map(|cx| ..) of the row iz of columns
ChunkRow(columns, x, z, y, iz) ==
    << ChunkAt(columns, x, z, y, 1, iz), ChunkAt(columns, x, z, y, 2, iz),
       ChunkAt(columns, x, z, y, 3, iz) >>

\* columns.map(|cz| ..) at height y
ChunkLayer(columns, x, z, y) ==
    << ChunkRow(columns, x, z, y, 1), ChunkRow(columns, x, z, y, 2),
       ChunkRow(columns, x, z, y, 3) >>

\* chunks: [-1, 0, 1].map(|dy| ..), chunks[dy + 2][dz + 2][dx + 2] in the
\* indices of the model
Chunks(columns, x, z, y) ==
    << ChunkLayer(columns, x, z, y - 1), ChunkLayer(columns, x, z, y),
       ChunkLayer(columns, x, z, y + 1) >>

\* cx.map(|c| &c.biomes)
BiomeAt(columns, x, z, ix, iz) ==
    LET cx == columns[iz][ix]
    IN  IF cx = None THEN None
        ELSE Some(BiomeRef(x + (ix - 2), z + (iz - 2), cx[1]))

\* cz.map(|cx| cx.map(|c| &c.biomes)) of the row iz of columns
BiomeRow(columns, x, z, iz) ==
    << BiomeAt(columns, x, z, 1, iz), BiomeAt(columns, x, z, 2, iz),
       BiomeAt(columns, x, z, 3, iz) >>

\* the middle row (dz = 0) in the place of each of the three rows
ColumnBiomes_Central(columns, x, z) ==
    << BiomeRow(columns, x, z, 2), BiomeRow(columns, x, z, 2),
       BiomeRow(columns, x, z, 2) >>

\* columns.map(|cz| cz.map(|cx| cx.map(|c| &c.biomes)))
ColumnBiomes(columns, x, z) ==
    << BiomeRow(columns, x, z, 1), BiomeRow(columns, x, z, 2),
       BiomeRow(columns, x, z, 3) >>

\* the arguments f is called with for slice y of the column at (x, z);
\* central = columns[1][1].unwrap()
Request(columns, x, z, y) ==
    [coords |-> << x, y, z >>,
     buffer |-> BufferRef(x, z, y, columns[2][2][1]),
     chunks |-> Chunks(columns, x, z, y),
     biomes |-> ColumnBiomes(columns, x, z)]

\* the calls of f for the key (x, z): for y in 0..central.chunks.len()
ColumnRequests(cols, x, z) ==
    Only({ [i \in 1 .. Len(columns[2][2][1].chunks) |->
                Request(columns, x, z, i - 1)] :
           columns \in { Columns(cols, x, z) } })

\* for &(x, z) in self.chunk_columns.keys(), the keys taken in the order keys
RECURSIVE EachChunkAndNeighbors(_, _)
EachChunkAndNeighbors(cols, keys) ==
    IF keys = << >> THEN << >>
    ELSE ColumnRequests(cols, Head(keys)[1], Head(keys)[2])
         \o EachChunkAndNeighbors(cols, Tail(keys))

\* The iteration orders of the HashMap that the model explores, set by the
\* hasher the map is built with: by (x, z) ascending and descending.
KeyOrders == {"xz", "rev"}

KeyBefore(ord, a, b) ==
    CASE ord = "xz" -> a[1] < b[1] \/ (a[1] = b[1] /\ a[2] < b[2])
      [] OTHER -> b[1] < a[1] \/ (b[1] = a[1] /\ b[2] < a[2])

RECURSIVE KeySeq(_, _)
KeySeq(S, ord) ==
    IF S = {} THEN << >>
    ELSE Only({ << first >> \o KeySeq(rest, ord) :
                << first, rest >> \in
                    { << a, S \ {a} >> : a \in
                        { a \in S : \A b \in S \ {a} : KeyBefore(ord, a, b) } } })

----------------------------------------------------------------------------
(* load_chunks, app.rs:344-373 and chunk.rs:92-125 *)

\* player_chunk: [pos.x(), pos.z()].map(|x| (x / 16.0).floor() as i32)
PlayerChunk(pos) == << ChunkOf(pos[1]), ChunkOf(pos[3]) >>

\* regions: player_chunk.map(|x| x >> 5)
Regions(pos) == << Shr5(PlayerChunk(pos)[1]), Shr5(PlayerChunk(pos)[2]) >>

\* a base sixteen columns back from the player
CBase_Back16(x) == Max(0, And31(x) - 2 * BASE_BACK)

\* c_bases: player_chunk.map(|x| max(0, (x & 0x1f) - 8) as u8)
CBase(x) == Max(0, And31(x) - BASE_BACK)

CBases(pos) == << CBase(PlayerChunk(pos)[1]), CBase(PlayerChunk(pos)[2]) >>

\* Region::get_chunk_column(cx, cz): the column the region file holds at
\* these local coordinates, with no mesh yet, or None
get_chunk_column(reg, cx, cz) ==
    IF << cx, cz >> \in DOMAIN reg THEN Some(reg[<< cx, cz >>]) ELSE None

\* the absolute key of local (cx, cz): cx as i32 + regions[0] * 32
AbsKey(regions, cx, cz) ==
    << cx + regions[1] * REGION_WIDTH, cz + regions[2] * REGION_WIDTH >>

\* the local coordinates of the two loops: a window of 16 x 16
Window(bases) ==
    { c \in (bases[1] .. bases[1] + WINDOW - 1)
              \X (bases[2] .. bases[2] + WINDOW - 1) : TRUE }

\* the loops reach a before b: cz is the outer loop, cx the inner one
LoopBefore(a, b) == a[2] < b[2] \/ (a[2] = b[2] /\ a[1] < b[1])

\* the coordinates of the set S in the order of the loops
RECURSIVE LoopSeq(_)
LoopSeq(S) ==
    IF S = {} THEN << >>
    ELSE Only({ << first >> \o LoopSeq(rest) :
                << first, rest >> \in
                    { << a, S \ {a} >> : a \in
                        { a \in S : \A b \in S \ {a} : LoopBefore(a, b) } } })

\* loops that end at the first None
Hits_UntilMiss(bases, reg) ==
    LoopSeq({ c \in Window(bases) :
                \A b \in Window(bases) :
                    (b = c \/ LoopBefore(b, c)) =>
                        get_chunk_column(reg, b[1], b[2]) # None })

\* the window coordinates that take the Some(column) arm, in loop order;
\* the None arm does nothing
Hits(bases, reg) ==
    LoopSeq({ c \in Window(bases) : get_chunk_column(reg, c[1], c[2]) # None })

\* the Some(column) arms of the loops, from the i-th on; gen stamps the
\* column objects stored
RECURSIVE LoadLoop(_, _, _, _, _, _)
LoadLoop(cols, gen, hits, i, regions, reg) ==
    IF i > Len(hits) THEN [cols |-> cols, gen |-> gen]
    ELSE LET column == get_chunk_column(reg, hits[i][1], hits[i][2])
             k == AbsKey(regions, hits[i][1], hits[i][2])
         IN  Only({ LoadLoop(next, gen + 1, hits, i + 1, regions, reg) :
                    next \in { add_chunk_column(cols, k[1], k[2],
                        ChunkColumn(column[1].chunks, column[1].biomes, gen)) } })

\* the index and the next stamp when load_chunks returns
Loaded(cols, gen, pos, reg) ==
    LoadLoop(cols, gen, Hits(CBases(pos), reg), 1, Regions(pos), reg)

\* the requests load_chunks pushes: the walk of the index as it is when
\* load_chunks is called (app.rs:353 and chunk.rs:100 precede the loop)
Pushed(cols, ord) == EachChunkAndNeighbors(cols, KeySeq(DOMAIN cols, ord))

----------------------------------------------------------------------------
(* The mesh slot of a request, app.rs:233 *)

\* the reference still points at the column object stored under its key
Live(cols, ref) == ref.key \in DOMAIN cols /\ cols[ref.key].gen = ref.gen

\* *buffer.borrow_mut() = Some(handle), the slot found under the key
StoreBuffer(cols, ref, handle) ==
    [cols EXCEPT ![ref.key].buffers[ref.y] = Some(handle)]

\* Where the write through the reference can land.  A column replaced by
\* a later insert under the same key leaves the reference dangling: the
\* write lands in the slot of the column now stored there (the bucket is
\* reused) or in memory the index no longer owns.
StoreOutcomes(cols, ref, handle) ==
    IF Live(cols, ref) THEN { StoreBuffer(cols, ref, handle) }
    ELSE { StoreBuffer(cols, ref, handle), cols }

----------------------------------------------------------------------------
(* App::render, app.rs:265-339 *)

\* The controller's orthonormal basis for a yaw of q quarter turns and no
\* pitch (Camera::set_yaw_pitch).
Forward(q) ==
    CASE q = 0 -> << 0, 0, 1 >> [] q = 1 -> << 1, 0, 0 >>
      [] q = 2 -> << 0, 0, -1 >> [] OTHER -> << -1, 0, 0 >>

Right(q) ==
    CASE q = 0 -> << 1, 0, 0 >> [] q = 1 -> << 0, 0, -1 >>
      [] q = 2 -> << -1, 0, 0 >> [] OTHER -> << 0, 0, 1 >>

Up == << 0, 1, 0 >>

Dot(a, b) == a[1] * b[1] + a[2] * b[2] + a[3] * b[3]

\* camera.position[1] += 1.62, then position += 0.1 * xz_forward
EyePosition(pos, q) ==
    << pos[1] + (Forward(q)[1] * Scale) \div 10,
       pos[2] + (162 * Scale) \div 100,
       pos[3] + (Forward(q)[3] * Scale) \div 10 >>

\* the view of a camera that looks along forward
ViewOf_Backward(v, eye, q) ==
    LET d == << v[1] - eye[1], v[2] - eye[2], v[3] - eye[3] >>
    IN  << Dot(Right(q), d), Dot(Up, d), -Dot(Forward(q), d) >>

\* col_mat4_transform(view_mat, [v, 1.0]) with view_mat = camera.orthogonal()
ViewOf(v, eye, q) ==
    LET d == << v[1] - eye[1], v[2] - eye[2], v[3] - eye[3] >>
    IN  << Dot(Right(q), d), Dot(Up, d), Dot(Forward(q), d) >>

\* vec3_add(xyz, [dx, dy, dz]) with xyz = [cx, cy, cz] * 16.0; d in {0, 1}^3
Corner(c, d) ==
    << (c[1] + d[1]) * CHUNK_WORLD * Scale,
       (c[2] + d[2]) * CHUNK_WORLD * Scale,
       (c[3] + d[3]) * CHUNK_WORLD * Scale >>

\* the corners in the order of the three loops over [0.0, 16.0]
CornerOffsets ==
    << << 0, 0, 0 >>, << 0, 0, 1 >>, << 0, 1, 0 >>, << 0, 1, 1 >>,
       << 1, 0, 0 >>, << 1, 0, 1 >>, << 1, 1, 0 >>, << 1, 1, 1 >> >>

\* The projection of CameraPerspective { fov: 70, near_clip: 0.1, far_clip:
\* 1000, aspect_ratio: 854 / 480 }: x' = PX x, y' = PY y,
\* z' = -(PZ_A z + PZ_B) / PZ_DEN, w' = -z, with PX = 1 / (aspect tan 35)
\* and PY = 1 / tan 35 to three decimals.
PX_NUM == 803
PY_NUM == 1428
P_DEN == 1000
PZ_A == 10001
PZ_B == 2000
PZ_DEN == 9999

\* v[i] * (1.0 / v[3]) of the clip-space vector v, as the pair << n, d >>
\* that stands for n / d
Ndc(view, i) ==
    CASE i = 1 -> << PX_NUM * view[1], P_DEN * (-view[3]) >>
      [] i = 2 -> << PY_NUM * view[2], P_DEN * (-view[3]) >>
      [] OTHER -> << -(PZ_A * view[3]) - PZ_B * Scale, PZ_DEN * (-view[3]) >>

\* Where the float n / d lies: Some(-2) in [-inf, -1], Some(-1) in (-1, 0),
\* Some(0) zero, Some(1) in (0, 1), Some(2) in [1, +inf]; None is NaN (0 * inf).
\* 1.0 / 0.0 is +inf.
Class(r) ==
    LET n == IF r[2] < 0 THEN -r[1] ELSE r[1]
        d == IF r[2] < 0 THEN -r[2] ELSE r[2]
    IN  IF d = 0 THEN (IF n > 0 THEN Some(2) ELSE IF n < 0 THEN Some(-2) ELSE None)
        ELSE IF n >= d THEN Some(2)
        ELSE IF n > 0 THEN Some(1)
        ELSE IF n = 0 THEN Some(0)
        ELSE IF n > -d THEN Some(-1)
        ELSE Some(-2)

\* f32::min and f32::max: a NaN operand is ignored
FMin(a, b) == IF b = None THEN a ELSE IF a = None THEN b
              ELSE IF b[1] < a[1] THEN b ELSE a

FMax(a, b) == IF b = None THEN a ELSE IF a = None THEN b
              ELSE IF b[1] > a[1] THEN b ELSE a

\* xyz of the corner whose view-space position is view: the three
\* projected coordinates after the division by w
CornerXyz(view) ==
    << Class(Ndc(view, 1)), Class(Ndc(view, 2)), Class(Ndc(view, 3)) >>

\* xyz of the corner of slice c at offset d
CornerOf(c, d, eye, q) ==
    Only({ CornerXyz(view) : view \in { ViewOf(Corner(c, d), eye, q) } })

\* xyz of the eight corners of slice c, in the order of the loops
Corners(c, eye, q) ==
    << CornerOf(c, CornerOffsets[1], eye, q), CornerOf(c, CornerOffsets[2], eye, q),
       CornerOf(c, CornerOffsets[3], eye, q), CornerOf(c, CornerOffsets[4], eye, q),
       CornerOf(c, CornerOffsets[5], eye, q), CornerOf(c, CornerOffsets[6], eye, q),
       CornerOf(c, CornerOffsets[7], eye, q), CornerOf(c, CornerOffsets[8], eye, q) >>

\* bb_min = [inf, inf, inf], bb_max = [-inf, -inf, -inf]
EmptyBox ==
    [min |-> << Some(2), Some(2), Some(2) >>,
     max |-> << Some(-2), Some(-2), Some(-2) >>]

\* bb_min = from_fn(|i| bb_min[i].min(xyz[i])), and bb_max with max
BBStep(bb, xyz) ==
    [min |-> << FMin(bb.min[1], xyz[1]), FMin(bb.min[2], xyz[2]),
                FMin(bb.min[3], xyz[3]) >>,
     max |-> << FMax(bb.max[1], xyz[1]), FMax(bb.max[2], xyz[2]),
                FMax(bb.max[3], xyz[3]) >>]

\* the loops over the corners, from the j-th corner on
RECURSIVE BBLoop(_, _, _)
BBLoop(corners, j, bb) ==
    IF j > Len(corners) THEN bb
    ELSE Only({ BBLoop(corners, j + 1, next) :
                next \in { BBStep(bb, corners[j]) } })

\* bb_min and bb_max after the loops
BoundingBox(c, eye, q) ==
    Only({ BBLoop(corners, 1, EmptyBox) : corners \in { Corners(c, eye, q) } })

\* f32::signum: -1.0 for a negative number, 1.0 for a positive one
Signum(a) == IF a[1] < 0 THEN -1 ELSE 1

\* f32::abs on the classes: |a| >= 1.0 exactly in the two outer classes
AbsClass(a) == IF a[1] < 0 THEN -a[1] ELSE a[1]

\* max for min: one of the two absolute values of at least 1.0 is enough
CullBit_Either(min, max) ==
    /\ Signum(min) = Signum(max)
    /\ (IF AbsClass(min) < AbsClass(max) THEN AbsClass(max) ELSE AbsClass(min)) >= 2

\* cull_bits[i]: min.signum() == max.signum()
\*               && min.abs().min(max.abs()) >= 1.0
CullBit(min, max) ==
    /\ Signum(min) = Signum(max)
    /\ (IF AbsClass(min) < AbsClass(max) THEN AbsClass(min) ELSE AbsClass(max)) >= 2

\* cull_bits.iter().any(|&cull| cull)
Culled(bb) == \E i \in 1 .. 3 : CullBit(bb.min[i], bb.max[i])

\* a count of the slices that straddle zero on both axes
NeedsSort_Both(bb) ==
    /\ bb.min[1][1] < 0 /\ bb.max[1][1] > 0
    /\ bb.min[2][1] < 0 /\ bb.max[2][1] > 0

\* bb_min[0] < 0.0 && bb_max[0] > 0.0 || bb_min[1] < 0.0 && bb_max[1] > 0.0
NeedsSort(bb) ==
    \/ bb.min[1][1] < 0 /\ bb.max[1][1] > 0
    \/ bb.min[2][1] < 0 /\ bb.max[2][1] > 0

\* each_chunk, chunk.rs:188-199: the slices f is called with, a column's
\* chunks zipped with its buffers, the keys taken in the order keys
SlicesOf(cols, k) ==
    LET n == IF Len(cols[k].chunks) < SIZE THEN Len(cols[k].chunks) ELSE SIZE
    IN  [i \in 1 .. n |->
            [coords |-> << k[1], i - 1, k[2] >>,
             chunk |-> cols[k].chunks[i],
             buffer |-> cols[k].buffers[i - 1]]]

RECURSIVE EachChunk(_, _)
EachChunk(cols, keys) ==
    IF keys = << >> THEN << >>
    ELSE SlicesOf(cols, Head(keys)) \o EachChunk(cols, Tail(keys))

\* a closure that calls Renderer::render twice for a slice it draws
DrawSlice_Twice(s, bb, fr) ==
    IF Culled(bb)
    THEN [fr EXCEPT !.num_total_chunks = @ + 1]
    ELSE [fr EXCEPT
            !.num_total_chunks = @ + 1,
            !.num_chunks = @ + 1,
            !.drawn = @ \o << [coords |-> s.coords, buffer |-> s.buffer[1]],
                              [coords |-> s.coords, buffer |-> s.buffer[1]] >>,
            !.num_sorted_chunks = IF NeedsSort(bb) THEN @ + 1 ELSE @]

\* the closure of render past its `if let Some(buffer)`, bb being the
\* bounding box of the loops over the corners
DrawSlice(s, bb, fr) ==
    IF Culled(bb)
    THEN [fr EXCEPT !.num_total_chunks = @ + 1]
    ELSE [fr EXCEPT
            !.num_total_chunks = @ + 1,
            !.num_chunks = @ + 1,
            !.drawn = Append(@, [coords |-> s.coords, buffer |-> s.buffer[1]]),
            !.num_sorted_chunks = IF NeedsSort(bb) THEN @ + 1 ELSE @]

\* the closure of render called with slice s; fr is the frame so far
RenderSlice(s, eye, q, fr) ==
    IF s.buffer = None THEN fr
    ELSE Only({ DrawSlice(s, bb, fr) : bb \in { BoundingBox(s.coords, eye, q) } })

\* each_chunk(closure) over the slices from the i-th on
RECURSIVE RenderSlices(_, _, _, _, _)
RenderSlices(slices, i, eye, q, fr) ==
    IF i > Len(slices) THEN fr
    ELSE Only({ RenderSlices(slices, i + 1, eye, q, next) :
                next \in { RenderSlice(slices[i], eye, q, fr) } })

----------------------------------------------------------------------------
(* Inputs *)

Biomes(b) == [value |-> b]

\* a column of a region file: its slices bottom to top and its biome grid
RegionColumn(chunks, b) == [chunks |-> chunks, biomes |-> Biomes(b)]

\* The region file: columns that touch around local (0, 0), one of them
\* without slices, one past the first window, two that touch diagonally at
\* the far edge of x, and one in the far corner.
RegionFile ==
    (<< 0, 0 >> :> RegionColumn(<< Chunk(1, 15), Chunk(0, 240) >>, 1))
    @@ (<< 1, 0 >> :> RegionColumn(<< Chunk(2, 240) >>, 2))
    @@ (<< 0, 1 >> :> RegionColumn(<< Chunk(3, 0) >>, 3))
    @@ (<< 1, 1 >> :> RegionColumn(<< >>, 7))
    @@ (<< 16, 0 >> :> RegionColumn(<< Chunk(4, 15) >>, 4))
    @@ (<< 31, 0 >> :> RegionColumn(<< Chunk(5, 15) >>, 5))
    @@ (<< 30, 1 >> :> RegionColumn(<< Chunk(6, 15), Chunk(6, 240) >>, 6))
    @@ (<< 31, 31 >> :> RegionColumn(<< Chunk(7, 15) >>, 9))

\* Player.pos of level.dat: (8, 64, 8), in chunk column (0, 0)
PlayerPositions == { << 8 * Scale, 64 * Scale, 8 * Scale >> }

\* Player.pos of other worlds: x of 16 k + 7.5 for every chunk column k of
\* -33 .. 32 (two regions below zero and one above, every value of k & 31
\* on both sides of zero), z of -0.5, 8 and 500 (columns -1, 0 and 31)
WindowPlayers ==
    { << x, 64 * Scale, z >> :
        x \in { ((32 * k + 15) * Scale) \div 2 : k \in -33 .. 32 },
        z \in { -(Scale \div 2), 8 * Scale, 500 * Scale } }

\* a position the first-person controller can move the camera to:
\* (24.5, 24, -8.5), in chunk (1, 1, -1)
CameraMoves == { << (49 * Scale) \div 2, 24 * Scale, -((17 * Scale) \div 2) >> }

CameraPositions == {player} \cup CameraMoves

\* the add_chunk_column call of the code that owns the manager: a column
\* of two slices at (1, -1), next to the load window of the player
AddCalls ==
    { [key |-> << 1, -1 >>,
       column |-> RegionColumn(<< Chunk(8, 240), Chunk(9, 0) >>, 8)] }

\* yaws of the controller, in quarter turns
Facings == 0 .. 3

\* the outcome of a frame: the render calls in order, the three counters
\* and the yaw of the camera the frame was drawn with
NoFrame == [drawn |-> << >>, num_chunks |-> 0, num_sorted_chunks |-> 0,
            num_total_chunks |-> 0, yaw |-> 0]

----------------------------------------------------------------------------
(* The state machine *)

\* App::from_args for a world whose level.dat puts the player at one of
\* positions; the region file opened is the one of the player's region
Start(positions) ==
    /\ chunk_columns = << >>
    /\ pending_chunks = << >>
    /\ cm_pending_chunks = << >>
    /\ region = RegionFile
    /\ player \in positions
    /\ camera = player
    /\ hash_order \in KeyOrders
    /\ next_gen = 1
    /\ create_buffer_calls = 0
    /\ ticks = 0
    /\ loads = 0
    /\ adds = 0
    /\ event = "from_args"
    /\ pending = None
    /\ got = None
    /\ walked = << >>
    /\ requested = {}
    /\ frame = NoFrame

Init == Start(PlayerPositions)

\* worlds that differ in the position of the player
InitWindow == Start(WindowPlayers)

\* what no event changes
Fixed == UNCHANGED << region, player, hash_order >>

\* ChunkManager::add_chunk_column called by the code that owns the manager
AddChunkColumn ==
    /\ adds < MaxAdds
    /\ \E a \in AddCalls :
        chunk_columns' = add_chunk_column(chunk_columns, a.key[1], a.key[2],
                            ChunkColumn(a.column.chunks, a.column.biomes,
                                        next_gen))
    /\ next_gen' = next_gen + 1
    /\ adds' = adds + 1
    /\ event' = "add_chunk_column"
    /\ pending' = None /\ got' = None /\ walked' = << >> /\ frame' = NoFrame
    /\ requested' = {}
    /\ Fixed
    /\ UNCHANGED << pending_chunks, cm_pending_chunks, camera,
                    create_buffer_calls, ticks, loads >>

\* App::load_chunks
LoadChunks ==
    /\ loads < MaxLoads
    /\ \E pushed \in { Pushed(chunk_columns, hash_order) } :
        /\ walked' = pushed
        /\ pending_chunks' = pending_chunks \o pushed
    /\ \E loaded \in { Loaded(chunk_columns, next_gen, player, region) } :
        /\ chunk_columns' = loaded.cols
        /\ next_gen' = loaded.gen
    /\ loads' = loads + 1
    /\ event' = "App::load_chunks"
    /\ requested' = Window(CBases(player))
    /\ pending' = None /\ got' = None /\ frame' = NoFrame
    /\ Fixed
    /\ UNCHANGED << cm_pending_chunks, camera, create_buffer_calls, ticks,
                    adds >>

\* ChunkManager::load_chunks
ManagerLoadChunks ==
    /\ loads < MaxLoads
    /\ \E pushed \in { Pushed(chunk_columns, hash_order) } :
        /\ walked' = pushed
        /\ cm_pending_chunks' = cm_pending_chunks \o pushed
    /\ \E loaded \in { Loaded(chunk_columns, next_gen, player, region) } :
        /\ chunk_columns' = loaded.cols
        /\ next_gen' = loaded.gen
    /\ loads' = loads + 1
    /\ event' = "ChunkManager::load_chunks"
    /\ requested' = Window(CBases(player))
    /\ pending' = None /\ got' = None /\ frame' = NoFrame
    /\ Fixed
    /\ UNCHANGED << pending_chunks, camera, create_buffer_calls, ticks, adds >>

\* create_buffer called before the match, on every tick
CreateBuffer_EveryTick(pend, calls) == calls + 1

\* the calls of create_buffer after the `match pending`: the Some arm
\* fills the staging buffer and calls it once, the None arm does nothing
CreateBuffer(pend, calls) == IF pend = None THEN calls ELSE calls + 1

\* the index after the `match pending`: the Some arm stores the handle
\* through the buffer reference of the request
FillBuffer(cols, pend, handle) ==
    IF pend = None THEN { cols } ELSE StoreOutcomes(cols, pend[1].buffer, handle)

\* App::handle_event(Event::Update): the nearest pop, the mesh of the popped
\* request, then camera.event(&event), which moves the camera
UpdateStep ==
    /\ \E closest \in { Closest(pending_chunks, UpdatePP(camera)) } :
        /\ pending' = PopResult(pending_chunks, closest)
        /\ pending_chunks' = PopRest(pending_chunks, closest)
        /\ create_buffer_calls' = CreateBuffer(pending', create_buffer_calls)
        /\ chunk_columns' \in
               FillBuffer(chunk_columns, pending', create_buffer_calls')
    /\ camera' \in CameraPositions
    /\ event' = "Update"
    /\ got' = None /\ walked' = << >> /\ frame' = NoFrame
    /\ requested' = {}
    /\ Fixed
    /\ UNCHANGED << cm_pending_chunks, next_gen, loads, adds >>

\* an Update event of a run of at most MaxTicks ticks
Update ==
    /\ ticks < MaxTicks
    /\ UpdateStep
    /\ ticks' = ticks + 1

\* an Update event of a run whose ticks are not counted: the event loop of
\* main delivers them, 120 a second, for as long as the window is open
UpdateTick ==
    /\ UpdateStep
    /\ UNCHANGED ticks

\* ChunkManager::get_pending(player)
GetPending ==
    /\ \E closest \in { Closest(cm_pending_chunks, GetPendingPP(player)) } :
        /\ got' = PopResult(cm_pending_chunks, closest)
        /\ cm_pending_chunks' = PopRest(cm_pending_chunks, closest)
    /\ event' = "get_pending"
    /\ pending' = None /\ walked' = << >> /\ frame' = NoFrame
    /\ requested' = {}
    /\ Fixed
    /\ UNCHANGED << chunk_columns, pending_chunks, camera, next_gen,
                    create_buffer_calls, ticks, loads, adds >>

\* App::handle_event(Event::Render): App::render.  The yaw is the one the
\* input events since the last frame have left in the controller.
Render ==
    /\ \E slices \in { EachChunk(chunk_columns,
                                  KeySeq(DOMAIN chunk_columns, hash_order)) } :
        \E q \in Facings : \E eye \in { EyePosition(camera, q) } :
            frame' = RenderSlices(slices, 1, eye, q, [NoFrame EXCEPT !.yaw = q])
    /\ event' = "Render"
    /\ pending' = None /\ got' = None /\ walked' = << >> /\ requested' = {}
    /\ Fixed
    /\ UNCHANGED << chunk_columns, pending_chunks, cm_pending_chunks, camera,
                    next_gen, create_buffer_calls, ticks, loads, adds >>

\* the program that drives the pending queue of App
Next ==
    \/ AddChunkColumn
    \/ LoadChunks
    \/ Update
    \/ Render

\* the two pending queues side by side: both load_chunks, the Update
\* handler and get_pending
NextQueues ==
    \/ LoadChunks
    \/ ManagerLoadChunks
    \/ Update
    \/ GetPending

\* load_chunks of App and of ChunkManager, for the players of InitWindow
NextWindow ==
    \/ LoadChunks
    \/ ManagerLoadChunks

\* the program of main with an event loop that does not end: load_chunks
\* calls, Update and Render events
NextLive ==
    \/ LoadChunks
    \/ UpdateTick
    \/ Render

Spec == Init /\ [][Next]_vars

\* The loop over app.window.events().ups(120) of main hands an Update event
\* to handle_event again and again, whatever else it hands over.
SpecLive == Init /\ [][NextLive]_vars /\ WF_vars(UpdateTick)

SpecWindow == InitWindow /\ [][NextWindow]_vars

SpecQueues == Init /\ [][NextQueues]_vars

----------------------------------------------------------------------------
(* The vocabulary of the properties *)

\* floor(v / 16) of a coordinate v in blocks, from the definition of floor
FloorChunk(v) ==
    CHOOSE k \in -8 .. 8 :
        CHUNK_WORLD * Scale * k <= v /\ v < CHUNK_WORLD * Scale * (k + 1)

\* the chunk coordinate of a position
ChunkCoordinate(pos) ==
    << FloorChunk(pos[1]), FloorChunk(pos[2]), FloorChunk(pos[3]) >>

\* squared Euclidean distance of two chunk coordinates
SqDist(a, b) ==
    (a[1] - b[1]) * (a[1] - b[1]) + (a[2] - b[2]) * (a[2] - b[2])
    + (a[3] - b[3]) * (a[3] - b[3])

\* q[i] is a nearest request of q to c, and the first of them in q
IsNearest(q, c, i) ==
    /\ i \in 1 .. Len(q)
    /\ \A j \in 1 .. Len(q) :
        /\ SqDist(q[i].coords, c) <= SqDist(q[j].coords, c)
        /\ SqDist(q[j].coords, c) = SqDist(q[i].coords, c) => i <= j

\* how many times r occurs in q
Count(q, r) == Cardinality({ i \in 1 .. Len(q) : q[i] = r })

Range(q) == { q[i] : i \in 1 .. Len(q) }

\* after is before with one occurrence of r taken out
RemovesOne(before, after, r) ==
    /\ Len(after) = Len(before) - 1
    /\ \A e \in Range(before) \cup Range(after) :
        Count(after, e) = Count(before, e) - (IF e = r THEN 1 ELSE 0)

LoadEvents == {"App::load_chunks", "ChunkManager::load_chunks"}

\* the slices the index holds: << x, y, z >> for every y below the length
\* of the column at (x, z)
SlicesHeld(cols) ==
    { << k[1], y, k[2] >> : << k, y >> \in
        { << k, y >> \in (DOMAIN cols) \X (0 .. SIZE) : y < Len(cols[k].chunks) } }

\* the chunk a chunk reference points at
Deref(cols, ref) ==
    IF ref = EmptyRef THEN EMPTY_CHUNK
    ELSE cols[<< ref[2], ref[3] >>].chunks[ref[4] + 1]

Offsets == {-1, 0, 1}

----------------------------------------------------------------------------
(* C1 *)

\* C1 (as the claim states it, for ChunkManager::get_pending): on a
\* non-empty queue get_pending returns the request whose coordinate is
\* nearest, in squared Euclidean distance, to the chunk coordinate
\* floor(pos / 16) of the player, the first in the queue among equals.
C1_GetPendingNearest ==
    [][(event' = "get_pending" /\ cm_pending_chunks # << >>) =>
        \E i \in 1 .. Len(cm_pending_chunks) :
            /\ IsNearest(cm_pending_chunks, ChunkCoordinate(player), i)
            /\ got' = Some(cm_pending_chunks[i])]_vars

----------------------------------------------------------------------------
(* C2 *)

\* C2: a nearest pop that returns a request, in the Update handler or in
\* get_pending, leaves a queue one shorter whose multiset of requests is
\* that of the queue before less one occurrence of the request returned.
C2_PopRemovesOne ==
    [][/\ (event' = "Update" /\ pending' # None) =>
            RemovesOne(pending_chunks, pending_chunks', pending'[1])
       /\ (event' = "get_pending" /\ got' # None) =>
            RemovesOne(cm_pending_chunks, cm_pending_chunks', got'[1])]_vars

\* a second pop has returned a request and left two behind
C2_Witness ==
    /\ event = "get_pending" /\ got # None
    /\ Len(cm_pending_chunks) = 2
    /\ \A i \in 1 .. 2 : cm_pending_chunks[i] # got[1]

----------------------------------------------------------------------------
(* C3 *)

\* C3: a nearest pop on an empty queue returns nothing and leaves the queue
\* empty; the Update tick builds no mesh, calls create_buffer zero times
\* and changes no mesh slot of the index.
C3_EmptyPopIsNoOp ==
    [][/\ (event' = "Update" /\ pending_chunks = << >>) =>
            /\ pending' = None
            /\ pending_chunks' = << >>
            /\ create_buffer_calls' = create_buffer_calls
            /\ chunk_columns' = chunk_columns
       /\ (event' = "get_pending" /\ cm_pending_chunks = << >>) =>
            /\ got' = None
            /\ cm_pending_chunks' = << >>
            /\ chunk_columns' = chunk_columns]_vars

\* an Update tick has found the queue empty with columns in the index
C3_Witness ==
    /\ event = "Update" /\ pending = None /\ pending_chunks = << >>
    /\ DOMAIN chunk_columns # {}

----------------------------------------------------------------------------
(* C4 *)

----------------------------------------------------------------------------
(* C5 *)

\* C5 (as the claim states it): a load_chunks call on an empty index
\* enqueues exactly one request for every slice of every column it has
\* inserted.
C5_FirstLoadEnqueuesAll ==
    [][(event' = "App::load_chunks" /\ DOMAIN chunk_columns = {}) =>
        /\ Len(pending_chunks') - Len(pending_chunks)
              = Cardinality(SlicesHeld(chunk_columns'))
        /\ \A c \in SlicesHeld(chunk_columns') :
              Cardinality({ i \in 1 .. Len(walked') : walked'[i].coords = c }) = 1
       ]_vars

----------------------------------------------------------------------------
(* C6 *)

\* the reference the claim gives the neighbour at offset d of slice y of
\* the column at k
NeighborChunk(cols, k, y, d) ==
    LET n == << k[1] + d[1], k[2] + d[3] >>
        ny == y + d[2]
    IN  IF n \in DOMAIN cols /\ ny >= 0 /\ ny < Len(cols[n].chunks)
        THEN [loaded |-> TRUE, chunk |-> cols[n].chunks[ny + 1],
              at |-> << n[1], n[2], ny, cols[n].gen >>]
        ELSE [loaded |-> FALSE]

\* C6: the walk of load_chunks calls back once for every slice of every
\* column of the index, and the chunk reference at offset (dx, dy, dz) is
\* the chunk at slice y + dy of the column at (x + dx, z + dz) when that
\* column is in the index and the slice in its range, and otherwise
\* EMPTY_CHUNK: empty blocks and the light byte 0xF0.
C6_NeighborChunks ==
    [][event' \in LoadEvents =>
        /\ { walked'[i].coords : i \in 1 .. Len(walked') }
              = SlicesHeld(chunk_columns)
        /\ Len(walked') = Cardinality(SlicesHeld(chunk_columns))
        /\ \A i \in 1 .. Len(walked') : \A d \in Offsets \X Offsets \X Offsets :
            LET c == walked'[i].coords
                ref == walked'[i].chunks[d[2] + 2][d[3] + 2][d[1] + 2]
                want == NeighborChunk(chunk_columns, << c[1], c[3] >>, c[2], d)
            IN  IF want.loaded
                THEN /\ ref = << "chunk" >> \o want.at
                     /\ Deref(chunk_columns, ref) = want.chunk
                ELSE /\ ref = EmptyRef
                     /\ Deref(chunk_columns, ref).blocks.value = 0
                     /\ Deref(chunk_columns, ref).light_levels.value = 240
       ]_vars

\* a walk has passed a slice whose +x neighbour is data of the index and
\* whose -x neighbour is EMPTY_CHUNK
C6_Witness ==
    /\ event \in LoadEvents
    /\ \E i \in 1 .. Len(walked) :
        /\ walked[i].chunks[2][2][3] # EmptyRef
        /\ walked[i].chunks[2][2][1] = EmptyRef
        /\ walked[i].chunks[3][2][2] # EmptyRef

----------------------------------------------------------------------------
(* C7 *)

\* C7: in the walk of load_chunks the biome reference at offset (dx, dz) is
\* present exactly when the column at (x + dx, z + dz) is in the index, is
\* then the biome grid of that column, and the 3 x 3 biome references are
\* the same for every slice of a column.
C7_NeighborBiomes ==
    [][event' \in LoadEvents =>
        /\ \A i \in 1 .. Len(walked') : \A d \in Offsets \X Offsets :
            LET c == walked'[i].coords
                n == << c[1] + d[1], c[3] + d[2] >>
                ref == walked'[i].biomes[d[2] + 2][d[1] + 2]
            IN  /\ ref # None <=> n \in DOMAIN chunk_columns
                /\ ref # None =>
                    /\ ref[1] = << "biomes", n[1], n[2], chunk_columns[n].gen >>
                    /\ chunk_columns[<< ref[1][2], ref[1][3] >>].biomes
                          = chunk_columns[n].biomes
        /\ \A i, j \in 1 .. Len(walked') :
            (walked'[i].coords[1] = walked'[j].coords[1]
                /\ walked'[i].coords[3] = walked'[j].coords[3])
            => walked'[i].biomes = walked'[j].biomes]_vars

\* a walk has passed two slices of a column that has a neighbour in the
\* index on one side and none on the other
C7_Witness ==
    /\ event \in LoadEvents
    /\ \E i, j \in 1 .. Len(walked) :
        /\ i # j
        /\ walked[i].coords[1] = walked[j].coords[1]
        /\ walked[i].coords[3] = walked[j].coords[3]
        /\ walked[i].biomes[2][3] # None
        /\ walked[i].biomes[2][1] = None

----------------------------------------------------------------------------
(* C8 *)

----------------------------------------------------------------------------
(* C9 *)

\* the index after holds at key the column (chunks, biomes), as an object
\* stored by the call (its stamp is not below gen, the next stamp before)
Inserted(after, key, column, gen) ==
    /\ GetColumn(after, key[1], key[2]) # None
    /\ GetColumn(after, key[1], key[2])[1].chunks = column.chunks
    /\ GetColumn(after, key[1], key[2])[1].biomes = column.biomes
    /\ GetColumn(after, key[1], key[2])[1].gen >= gen

\* C9: after add_chunk_column(x, z, c) a lookup of (x, z) yields a column
\* equal to c in chunks and biomes; an insert at a key already present
\* replaces the column there; every other key maps to the column it mapped
\* to before.  The inserts are those of the manager's owner and those of
\* load_chunks.
C9_AddThenLookup ==
    [][/\ event' = "add_chunk_column" =>
            \E a \in AddCalls :
                /\ Inserted(chunk_columns', a.key, a.column, next_gen)
                /\ DOMAIN chunk_columns' = DOMAIN chunk_columns \cup {a.key}
                /\ \A k \in DOMAIN chunk_columns \ {a.key} :
                      chunk_columns'[k] = chunk_columns[k]
       /\ event' \in LoadEvents =>
            LET keys == { AbsKey(Regions(player), c[1], c[2]) :
                            c \in { c \in Window(CBases(player)) : c \in DOMAIN region } }
            IN  /\ \A c \in Window(CBases(player)) \cap (DOMAIN region) :
                      Inserted(chunk_columns',
                               AbsKey(Regions(player), c[1], c[2]), region[c], next_gen)
                /\ DOMAIN chunk_columns' = DOMAIN chunk_columns \cup keys
                /\ \A k \in DOMAIN chunk_columns \ keys :
                      chunk_columns'[k] = chunk_columns[k]]_vars

\* a second load has replaced columns next to one that it left alone
C9_Witness ==
    /\ event \in LoadEvents /\ loads = 2 /\ adds = 1
    /\ << 1, -1 >> \in DOMAIN chunk_columns
    /\ << 0, 0 >> \in DOMAIN chunk_columns
    /\ chunk_columns[<< 0, 0 >>].gen > chunk_columns[<< 1, -1 >>].gen

----------------------------------------------------------------------------
(* C10 *)

\* the quotient n / d of the pair r is at least 1.0, at most -1.0, NaN
AtLeastOne(r) ==
    \/ r[2] > 0 /\ r[1] >= r[2]
    \/ r[2] < 0 /\ r[1] <= r[2]
    \/ r[2] = 0 /\ r[1] > 0

AtMostMinusOne(r) ==
    \/ r[2] > 0 /\ r[1] <= -r[2]
    \/ r[2] < 0 /\ r[1] >= -r[2]
    \/ r[2] = 0 /\ r[1] < 0

IsNaN(r) == r[1] = 0 /\ r[2] = 0

\* the projected coordinates, on axis i, of the eight corners of slice c
Projected(c, i, eye, q) ==
    { r \in { Ndc(ViewOf(Corner(c, d), eye, q), i) :
                d \in {0, 1} \X {0, 1} \X {0, 1} } : ~IsNaN(r) }

\* on some axis the minimum and the maximum of the projected corners have
\* the same sign and absolute values of at least 1.0: every corner is at
\* least 1.0, or every corner is at most -1.0
OutsideFrustum(c, eye, q) ==
    \E i \in 1 .. 3 : \E corners \in { Projected(c, i, eye, q) } :
        /\ corners # {}
        /\ \/ \A r \in corners : AtLeastOne(r)
           \/ \A r \in corners : AtMostMinusOne(r)

\* the slices of the index with a mesh in their slot
Meshed(cols) ==
    { c \in SlicesHeld(cols) : cols[<< c[1], c[3] >>].buffers[c[2]] # None }

\* C10: a frame culls (does not draw) a slice with a completed mesh exactly
\* when on some axis the minimum and the maximum of its projected bounding
\* box have the same sign and absolute values of at least 1.0; it draws
\* every other slice with a completed mesh, once, and nothing else.
C10_CullRule ==
    [][event' = "Render" =>
        \E meshed \in { Meshed(chunk_columns) } :
        \E drawn \in { { frame'.drawn[i].coords : i \in 1 .. Len(frame'.drawn) } } :
            /\ Len(frame'.drawn) = Cardinality(drawn)
            /\ frame'.num_chunks = Len(frame'.drawn)
            /\ frame'.num_total_chunks = Cardinality(meshed)
            /\ \E q \in Facings :
                  drawn = { c \in meshed :
                              ~OutsideFrustum(c, EyePosition(camera, q), q) }
       ]_vars

\* a frame has drawn one meshed slice and culled another
C10_Witness ==
    /\ event = "Render"
    /\ frame.num_chunks >= 1
    /\ frame.num_total_chunks > frame.num_chunks

----------------------------------------------------------------------------
(* C11 *)

\* the slices drawn by a frame
Drawn(fr) == { fr.drawn[i].coords : i \in 1 .. Len(fr.drawn) }

\* every corner of slice c lies behind the eye of a camera of yaw q at pos:
\* on the side of forward, the camera looking along -forward
Behind(c, pos, q) ==
    \A d \in {0, 1} \X {0, 1} \X {0, 1} :
        Dot(Forward(q),
            << Corner(c, d)[1] - EyePosition(pos, q)[1],
               Corner(c, d)[2] - EyePosition(pos, q)[2],
               Corner(c, d)[3] - EyePosition(pos, q)[3] >>) > 0

\* the position pos lies strictly inside the box of slice c
Straddles(c, pos) ==
    \A i \in 1 .. 3 :
        /\ Corner(c, << 0, 0, 0 >>)[i] < pos[i]
        /\ pos[i] < Corner(c, << 1, 1, 1 >>)[i]

\* C11: a frame does not draw (culls) a slice with a completed mesh whose
\* eight corners all lie behind the camera, and it draws a slice with a
\* completed mesh whose box holds the camera position.
C11_BehindCulledStraddleDrawn ==
    [][event' = "Render" =>
        \A c \in Meshed(chunk_columns) :
            /\ Behind(c, camera, frame'.yaw) => c \notin Drawn(frame')
            /\ Straddles(c, camera) => c \in Drawn(frame')
      ]_vars

\* a frame has culled a meshed slice behind the camera and drawn the meshed
\* slice the camera stands in
C11_Witness ==
    /\ event = "Render"
    /\ \E c \in Meshed(chunk_columns) :
          Behind(c, camera, frame.yaw) /\ c \notin Drawn(frame)
    /\ \E c \in Meshed(chunk_columns) :
          Straddles(c, camera) /\ c \in Drawn(frame)

----------------------------------------------------------------------------
(* C12 *)

\* the mesh slot of slice c in the index cols
SlotOf(cols, c) == cols[<< c[1], c[3] >>].buffers[c[2]]

\* the slices whose slot holds, after a step from before to after, a mesh
\* that it did not hold before the step
NewlyMeshed(before, after) ==
    Only({ { c \in Meshed(after) :
               c \notin had \/ SlotOf(after, c) # SlotOf(before, c) } :
           had \in { Meshed(before) } })

\* C12: no slot holds a mesh at the start and a slot comes to hold a mesh
\* only in an Update tick that popped the request of that slice, so that a
\* mesh in a slot was completed by an earlier tick; every frame calls
\* Renderer::render exactly once, with the mesh of its slot, for each slice
\* that has a completed mesh and survives culling, and for no other slice,
\* in particular for none whose slot is empty.
C12_DrawnOnceAfterUpdate ==
    /\ Meshed(chunk_columns) = {}
    /\ [][/\ \A c \in NewlyMeshed(chunk_columns, chunk_columns') :
                /\ event' = "Update"
                /\ pending' # None
                /\ pending'[1].coords = c
          /\ event' = "Render" =>
                \E meshed \in { Meshed(chunk_columns) } :
                \E eye \in { EyePosition(camera, frame'.yaw) } :
                    /\ Len(frame'.drawn) = Cardinality(Drawn(frame'))
                    /\ \A i \in 1 .. Len(frame'.drawn) :
                          /\ frame'.drawn[i].coords \in meshed
                          /\ Some(frame'.drawn[i].buffer)
                                = SlotOf(chunk_columns, frame'.drawn[i].coords)
                    /\ Drawn(frame') =
                          { c \in meshed :
                              ~OutsideFrustum(c, eye, frame'.yaw) }
         ]_vars

\* a frame has drawn a slice meshed by an earlier tick while the index
\* holds a slice whose slot is empty
C12_Witness ==
    /\ event = "Render"
    /\ ticks >= 1
    /\ Len(frame.drawn) >= 1
    /\ SlicesHeld(chunk_columns) \ Meshed(chunk_columns) # {}

----------------------------------------------------------------------------
(* C13 *)

\* the slice coordinates of the requests of the queue q
CoordsOf(q) == { q[i].coords : i \in 1 .. Len(q) }

\* C13: the pending queue never holds two requests for the same slice
\* coordinate, and a load_chunks call enqueues no request for a slice that
\* is already pending or whose mesh slot is already filled.
C13_NoDuplicateRequests ==
    [][/\ Cardinality(CoordsOf(pending_chunks')) = Len(pending_chunks')
       /\ event' = "App::load_chunks" =>
             /\ CoordsOf(walked') \cap CoordsOf(pending_chunks) = {}
             /\ CoordsOf(walked') \cap Meshed(chunk_columns) = {}
      ]_vars

----------------------------------------------------------------------------
(* C14 *)

\* the chunk column of the block coordinate v: the k with 16 k <= v < 16 (k + 1)
ColumnOf(v) ==
    CHOOSE k \in -40 .. 40 :
        k * CHUNK_WORLD * Scale <= v /\ v < (k + 1) * CHUNK_WORLD * Scale

\* x & 31 and x >> 5 by their arithmetic meaning: x = 32 r + m, 0 <= m < 32
Masked(x) == CHOOSE m \in 0 .. 31 : \E r \in -2 .. 2 : x = 32 * r + m

RegionOf(x) == CHOOSE r \in -2 .. 2 : \E m \in 0 .. 31 : x = 32 * r + m

\* max(0, (column & 31) - 8) for the axes x and z of the player at pos
BaseOf(pos) ==
    << IF Masked(ColumnOf(pos[1])) > 8 THEN Masked(ColumnOf(pos[1])) - 8 ELSE 0,
       IF Masked(ColumnOf(pos[3])) > 8 THEN Masked(ColumnOf(pos[3])) - 8 ELSE 0 >>

\* C14: load_chunks asks the region for exactly the 16 x 16 local
\* coordinates with base <= c < base + 16 on each axis, base being
\* max(0, (player column & 31) - 8), and every one of them lies in 0 .. 31.
C14_WindowInRegion ==
    [][event' \in LoadEvents =>
        /\ \E base \in { BaseOf(player) } :
              requested' = { c \in (0 .. 63) \X (0 .. 63) :
                               /\ base[1] <= c[1] /\ c[1] < base[1] + 16
                               /\ base[2] <= c[2] /\ c[2] < base[2] + 16 }
        /\ Cardinality(requested') = 16 * 16
        /\ \A c \in requested' : c[1] \in 0 .. 31 /\ c[2] \in 0 .. 31
      ]_vars

----------------------------------------------------------------------------
(* C15 *)

\* the requests a step into the state of event ev has pushed on App's queue
Enqueued(ev, pushed) == IF ev = "App::load_chunks" THEN Len(pushed) ELSE 0

\* C15: create_buffer is called at most once per mesh request.  At the start
\* the queue is empty and create_buffer has not been called; a step that is
\* not an Update tick with a popped request leaves the count of calls alone
\* and takes nothing from the queue (it holds what it held, then what the
\* step pushed); an Update tick with a popped request takes exactly that one
\* request out of the queue and adds exactly one call.  So the calls equal
\* the requests popped, and with the requests still queued they make up the
\* requests ever enqueued.
C15_OneCreatePerRequest ==
    /\ create_buffer_calls = 0 /\ pending_chunks = << >>
    /\ [][IF event' = "Update" /\ pending' # None
          THEN /\ create_buffer_calls' = create_buffer_calls + 1
               /\ RemovesOne(pending_chunks, pending_chunks', pending'[1])
          ELSE /\ create_buffer_calls' = create_buffer_calls
               /\ Len(pending_chunks') =
                     Len(pending_chunks) + Enqueued(event', walked')
               /\ SubSeq(pending_chunks', 1, Len(pending_chunks))
                     = pending_chunks
         ]_vars

\* two ticks have popped a request each, create_buffer has been called twice
\* and requests are still queued
C15_Witness ==
    /\ event = "Update" /\ pending # None
    /\ create_buffer_calls = 2
    /\ pending_chunks # << >>

----------------------------------------------------------------------------
(* C16 *)

\* the absolute column of local (cx, cz) in the region of the player at pos
AbsoluteOf(c, pos) ==
    << c[1] + 32 * RegionOf(ColumnOf(pos[1])),
       c[2] + 32 * RegionOf(ColumnOf(pos[3])) >>

\* the requested local coordinates for which the region returned a column
Returned(req, reg) == { c \in req : c \in DOMAIN reg }

\* C16: a load_chunks call, whatever the region returns nothing for, is
\* carried out to its end: afterwards the keys of the index are the keys it
\* held before and the absolute keys of the requested local coordinates for
\* which the region returned a column, each of these holding the returned
\* column; a coordinate without a column adds no key and does not keep the
\* columns of the coordinates after it from being inserted.
C16_MissingColumnSkipped ==
    [][event' \in LoadEvents =>
        \E returned \in { Returned(requested', region) } :
            /\ DOMAIN chunk_columns' =
                  (DOMAIN chunk_columns)
                      \cup { AbsoluteOf(c, player) : c \in returned }
            /\ \A c \in returned :
                  /\ chunk_columns'[AbsoluteOf(c, player)].chunks = region[c].chunks
                  /\ chunk_columns'[AbsoluteOf(c, player)].biomes = region[c].biomes
      ]_vars

\* a load has met a coordinate without a column and inserted the column of
\* a coordinate that the loops reach after it
C16_Witness ==
    /\ event \in LoadEvents
    /\ \E miss \in requested \ DOMAIN region :
       \E hit \in Returned(requested, region) :
          /\ LoopBefore(miss, hit)
          /\ AbsoluteOf(hit, player) \in DOMAIN chunk_columns

----------------------------------------------------------------------------
(* C17 *)

\* C17: no step (load_chunks, add_chunk_column, an Update tick, a render
\* frame) takes a key out of the index: every key it holds before the step
\* it holds after it.
C17_KeysOnlyGrow ==
    [][DOMAIN chunk_columns \subseteq DOMAIN chunk_columns']_vars

\* a frame drawn after a tick, with the index holding the column that was
\* added and the four that load_chunks inserted
C17_Witness ==
    /\ event = "Render"
    /\ ticks >= 1 /\ adds = 1 /\ loads >= 1
    /\ Cardinality(DOMAIN chunk_columns) = 5

----------------------------------------------------------------------------
(* C18 *)

\* the keys under which a load_chunks call that started with the stamp gen
\* has stored a column
InsertedKeys(after, gen) == { k \in DOMAIN after : after[k].gen >= gen }

----------------------------------------------------------------------------
(* C19 *)

\* C19: an Update tick that pops the request of slice (x, y, z) leaves the
\* index as it was but for mesh slot y of the column at (x, z), which holds
\* the buffer the tick created: every other slot, every chunk, every biome
\* grid and the key set are unchanged; and no tick and no frame empties a
\* slot that holds a mesh.
C19_TickFillsOneSlot ==
    [][/\ event' = "Update" /\ pending' # None =>
            \E c \in { pending'[1].coords } :
                /\ << c[1], c[3] >> \in DOMAIN chunk_columns
                /\ chunk_columns' =
                      [chunk_columns EXCEPT
                          ![<< c[1], c[3] >>].buffers[c[2]] =
                              Some(create_buffer_calls')]
       /\ event' \in {"Update", "Render"} =>
            Meshed(chunk_columns) \subseteq Meshed(chunk_columns')
      ]_vars

----------------------------------------------------------------------------
(* C20 *)

\* the quotient n / d of the pair r is below zero, above zero
Negative(r) ==
    \/ r[1] < 0 /\ r[2] > 0
    \/ r[1] > 0 /\ r[2] < 0
    \/ r[1] < 0 /\ r[2] = 0

Positive(r) ==
    \/ r[1] > 0 /\ r[2] > 0
    \/ r[1] < 0 /\ r[2] < 0
    \/ r[1] > 0 /\ r[2] = 0

\* on the axis X or on the axis Y the projected corners of slice c have a
\* minimum below zero and a maximum above zero
StraddlesZero(c, eye, q) ==
    \E i \in 1 .. 2 : \E corners \in { Projected(c, i, eye, q) } :
        /\ \E r \in corners : Negative(r)
        /\ \E r \in corners : Positive(r)

\* each_chunk reaches slice a before slice b
ReachedBefore(ord, a, b) ==
    \/ KeyBefore(ord, << a[1], a[3] >>, << b[1], b[3] >>)
    \/ a[1] = b[1] /\ a[3] = b[3] /\ a[2] < b[2]

\* C20: in every frame needs-sort <= rendered <= total, total being the
\* slices with a completed mesh and rendered the ones of them that are not
\* culled; needs-sort counts exactly the rendered slices whose projected X
\* or Y range has its minimum below and its maximum above zero; and the
\* slices drawn are all the unculled ones, in the order in which each_chunk
\* reaches them, whether counted needs-sort or not.
C20_FrameCounters ==
    [][event' = "Render" =>
        \E q \in { frame'.yaw } : \E eye \in { EyePosition(camera, frame'.yaw) } :
        \E meshed \in { Meshed(chunk_columns) } :
        \E unculled \in { { c \in meshed : ~OutsideFrustum(c, eye, q) } } :
            /\ frame'.num_sorted_chunks <= frame'.num_chunks
            /\ frame'.num_chunks <= frame'.num_total_chunks
            /\ frame'.num_total_chunks = Cardinality(meshed)
            /\ frame'.num_chunks = Cardinality(unculled)
            /\ frame'.num_sorted_chunks =
                  Cardinality({ c \in unculled : StraddlesZero(c, eye, q) })
            /\ Drawn(frame') = unculled
            /\ Len(frame'.drawn) = Cardinality(unculled)
            /\ \A i, j \in 1 .. Len(frame'.drawn) :
                  i < j => ReachedBefore(hash_order, frame'.drawn[i].coords,
                                         frame'.drawn[j].coords)
      ]_vars

\* a frame that has drawn a slice it counted needs-sort and a slice it did
\* not count
C20_Witness ==
    /\ event = "Render"
    /\ frame.num_sorted_chunks >= 1
    /\ frame.num_chunks > frame.num_sorted_chunks

----------------------------------------------------------------------------
(* C22 *)

\* the local coordinate, column & 31 on x and on z, of the column the player
\* at pos stands in
LocalOf(pos) == << Masked(ColumnOf(pos[1])), Masked(ColumnOf(pos[3])) >>

\* C22: on each axis the player's own local coordinate p & 31 lies in
\* [base, base + 16) with base = max(0, (p & 31) - 8), for negative columns
\* p too, and load_chunks asks the region for the column the player stands
\* in.
C22_PlayerInWindow ==
    [][event' \in LoadEvents =>
        \E local \in { LocalOf(player) } : \E base \in { BaseOf(player) } :
            /\ \A i \in 1 .. 2 : base[i] <= local[i] /\ local[i] < base[i] + 16
            /\ local \in requested'
      ]_vars

\* a load for a player in a negative column whose local coordinate is 31 on
\* both axes, where the window reaches past the region, has asked for the
\* player's column
C22_Witness ==
    /\ event \in LoadEvents
    /\ player[1] < 0 /\ player[3] < 0
    /\ LocalOf(player) = << 31, 31 >>
    /\ LocalOf(player) \in requested

----------------------------------------------------------------------------
(* C23 *)

\* C23: the nearest pop of the Update handler and get_pending are
\* equivalent: a get_pending call returns the request, and leaves the
\* queue, that the pop of the Update handler yields on the same queue for a
\* camera at the player's position, and an Update tick pops the request,
\* and leaves the queue, that get_pending yields on the same queue for a
\* player at the camera's position.
C23_PopsEquivalent ==
    [][/\ event' = "get_pending" =>
            \E closest \in { Closest(cm_pending_chunks, UpdatePP(player)) } :
                /\ got' = PopResult(cm_pending_chunks, closest)
                /\ cm_pending_chunks' = PopRest(cm_pending_chunks, closest)
       /\ event' = "Update" =>
            \E closest \in { Closest(pending_chunks, GetPendingPP(camera)) } :
                /\ pending' = PopResult(pending_chunks, closest)
                /\ pending_chunks' = PopRest(pending_chunks, closest)
      ]_vars

----------------------------------------------------------------------------
(* C21 *)

\* no load_chunks call is still to come: nothing more is enqueued and no
\* column is replaced
Quiet == loads = MaxLoads

\* the slices of the columns that load_chunks inserts for the player of
\* PlayerPositions
SliceCoords == SlicesHeld(Loaded(<< >>, 1, Only(PlayerPositions), RegionFile).cols)

\* C21: an Update tick on a queue of N > 0 requests leaves N - 1 and a tick
\* on an empty queue leaves it empty and the index as it is, so that a
\* queue of N requests is empty after exactly N ticks and later ticks do
\* nothing; and once nothing more is enqueued, every request in the queue
\* leads to a state where the queue is empty and the mesh slot of the
\* request is filled, however the camera moves and frames interleave.
C21_QueueDrains ==
    /\ [][event' = "Update" =>
            IF pending_chunks = << >>
            THEN /\ pending_chunks' = << >>
                 /\ chunk_columns' = chunk_columns
                 /\ create_buffer_calls' = create_buffer_calls
            ELSE Len(pending_chunks') = Len(pending_chunks) - 1
         ]_vars
    /\ \A c \in SliceCoords :
          (Quiet /\ c \in CoordsOf(pending_chunks))
              ~> (pending_chunks = << >> /\ c \in Meshed(chunk_columns))

====
